---- MODULE Spec2Model ----
(***************************************************************************)
(* A model of app/app.py, the Streamlit dashboard of sf-observabilidade.   *)
(*                                                                         *)
(* The script is re-run top to bottom on every control change.  One run    *)
(* is the pipeline                                                         *)
(*   load_data -> load_refs -> candidate detection -> sidebar controls ->  *)
(*   date filter -> moving average -> chart, reference band and table.     *)
(* Both loaders are wrapped in st.cache_data.                              *)
(*                                                                         *)
(* Text is a sequence of one-character strings, so that strip, lower,      *)
(* replace, substring tests and the numeric and date parsers are computed  *)
(* character by character.  A number is an exact decimal [n, d] (n / d);   *)
(* NaN is the record with d = 0.  A timestamp is an integer number of      *)
(* ticks since 2024-01-01 00:00:00 (TicksPerSecond ticks to the second);   *)
(* NaT is a sentinel integer, as in pandas.                                *)
(***************************************************************************)
EXTENDS Integers, Sequences, FiniteSets, TLC

VARIABLES
    csvPath,        \* DEFAULT_CSV_PATH of the current run
    refPath,        \* REF_CSV_PATH of the current run
    csvFile,        \* path -> content of the measurements file on disk
    refFile,        \* path -> state of the reference file on disk
    dataCache,      \* st.cache_data store of load_data, keyed by its argument
    refsCache,      \* st.cache_data store of load_refs, keyed by its argument
    parses,         \* <<loader, path>> -> number of times the loader body ran
    pc,             \* position of the current run in the script
    runs,           \* number of runs started so far
    df,             \* table returned by load_data
    date_col,       \* timestamp field name returned by load_data
    ref_map,        \* mapping returned by load_refs
    nn,             \* df.copy() with the candidate columns made numeric
    candidates,     \* list of candidate measurement headers
    feature,        \* selectbox value
    date_range,     \* date_input value: a tuple of 0, 1 or 2 day numbers
    rolling,        \* number_input value
    show_ref_band,  \* checkbox value
    dff,            \* displayed rows: sequence of [t, v]
    mm,             \* moving-average column of dff (<<>> when not added)
    series_to_plot, \* number of series handed to px.line (1 or 2)
    screen          \* what the run has put on the page

vars == <<csvPath, refPath, csvFile, refFile, dataCache, refsCache, parses, pc,
          runs, df, date_col, ref_map, nn, candidates, feature, date_range,
          rolling, show_ref_band, dff, mm, series_to_plot, screen>>

-----------------------------------------------------------------------------
(* Text *)

Whitespace == {" ", "\t"}

UpperCase == <<"A","B","C","D","E","F","G","H","I","J","K","L","M",
               "N","O","P","Q","R","S","T","U","V","W","X","Y","Z">>

LowerCase == <<"a","b","c","d","e","f","g","h","i","j","k","l","m",
               "n","o","p","q","r","s","t","u","v","w","x","y","z">>

LowerChar(c) ==
    IF \E i \in 1..Len(UpperCase) : UpperCase[i] = c
    THEN LowerCase[CHOOSE i \in 1..Len(UpperCase) : UpperCase[i] = c]
    ELSE c

\* str.lower()
lower(s) == [i \in 1..Len(s) |-> LowerChar(s[i])]

RECURSIVE lstrip(_)
lstrip(s) == IF s # <<>> /\ Head(s) \in Whitespace THEN lstrip(Tail(s)) ELSE s

RECURSIVE rstrip(_)
rstrip(s) ==
    IF s # <<>> /\ s[Len(s)] \in Whitespace
    THEN rstrip(SubSeq(s, 1, Len(s) - 1))
    ELSE s

\* str.strip()
strip(s) == rstrip(lstrip(s))

\* str.replace(old, new) for one-character old and new
replace(s, old, new) == [i \in 1..Len(s) |-> IF s[i] = old THEN new ELSE s[i]]

\* sub in s
Contains(s, sub) ==
    \E i \in 0..(Len(s) - Len(sub)) : SubSeq(s, i + 1, i + Len(sub)) = sub

-----------------------------------------------------------------------------
(* Numbers *)

Digits == <<"0","1","2","3","4","5","6","7","8","9">>

IsDigit(c) == \E i \in 1..Len(Digits) : Digits[i] = c

DigitVal(c) == (CHOOSE i \in 1..Len(Digits) : Digits[i] = c) - 1

RECURSIVE DigitsVal(_)
DigitsVal(s) ==
    IF s = <<>> THEN 0 ELSE DigitsVal(SubSeq(s, 1, Len(s) - 1)) * 10 + DigitVal(s[Len(s)])

RECURSIVE Pow10(_)
Pow10(k) == IF k = 0 THEN 1 ELSE 10 * Pow10(k - 1)

NaN == [n |-> 0, d |-> 0]

notna(x) == x.d # 0

\* An unsigned decimal numeral: digits with at most one point and at least one digit.
Unsigned(s) ==
    LET dots == {i \in 1..Len(s) : s[i] = "."}
        body == SelectSeq(s, LAMBDA c : c # ".")
    IN  IF /\ Cardinality(dots) <= 1
           /\ body # <<>>
           /\ \A i \in 1..Len(body) : IsDigit(body[i])
        THEN [n |-> DigitsVal(body),
              d |-> IF dots = {} THEN 1
                    ELSE Pow10(Len(s) - (CHOOSE i \in dots : TRUE))]
        ELSE NaN

\* pd.to_numeric(text, errors="coerce") on the characters the model draws
\* (digits, sign, point, comma, letters): a signed decimal numeral, else NaN.
\* The empty text is the missing cell.
to_numeric(s) ==
    IF s = <<>> THEN NaN
    ELSE IF Head(s) = "-"
         THEN LET u == Unsigned(Tail(s)) IN [n |-> 0 - u.n, d |-> u.d]
         ELSE IF Head(s) = "+" THEN Unsigned(Tail(s)) ELSE Unsigned(s)

\* Equality of two numbers as values (70.0 = 70); NaN equals nothing.
NumEq(a, b) == notna(a) /\ notna(b) /\ a.n * b.d = b.n * a.d

-----------------------------------------------------------------------------
(* Timestamps *)

SecondsPerDay == 86400

TicksPerSecond == 2

DayTicks == SecondsPerDay * TicksPerSecond

Second == TicksPerSecond

NaT == -2147483647

IsLeap(y) == (y % 4 = 0 /\ y % 100 # 0) \/ y % 400 = 0

DaysInMonth(y, m) ==
    IF m = 2 THEN (IF IsLeap(y) THEN 29 ELSE 28)
    ELSE IF m \in {4, 6, 9, 11} THEN 30 ELSE 31

RECURSIVE DaysBeforeMonth(_, _)
DaysBeforeMonth(y, m) ==
    IF m = 1 THEN 0 ELSE DaysBeforeMonth(y, m - 1) + DaysInMonth(y, m - 1)

\* Proleptic Gregorian ordinal of y-m-d
toordinal(y, m, d) ==
    LET p == y - 1
    IN  365 * p + (p \div 4) - (p \div 100) + (p \div 400) + DaysBeforeMonth(y, m) + d

EpochOrdinal == toordinal(2024, 1, 1)

\* Timestamp of midnight of a day number
Midnight(day) == day * DayTicks

\* Timestamp.date(): the day number of a timestamp
DateOf(t) == t \div DayTicks

\* The date part DD/MM/YYYY of a text, day first: the day number, or NaT when
\* the text has another shape or the date does not exist
DayFirstDate(s) ==
    IF /\ Len(s) = 10
       /\ s[3] = "/" /\ s[6] = "/"
       /\ \A i \in {1, 2, 4, 5, 7, 8, 9, 10} : IsDigit(s[i])
    THEN LET d == DigitsVal(SubSeq(s, 1, 2))
             m == DigitsVal(SubSeq(s, 4, 5))
             y == DigitsVal(SubSeq(s, 7, 10))
         IN  IF m \in 1..12 /\ y >= 1 /\ d >= 1 /\ d <= DaysInMonth(y, m)
             THEN toordinal(y, m, d) - EpochOrdinal
             ELSE NaT
    ELSE NaT

\* The time part HH:MM:SS or HH:MM:SS.f of a text in ticks, or NaT
TimeOfDay(s) ==
    IF /\ Len(s) \in {8, 10}
       /\ s[3] = ":" /\ s[6] = ":"
       /\ \A i \in {1, 2, 4, 5, 7, 8} : IsDigit(s[i])
       /\ Len(s) = 10 => (s[9] = "." /\ IsDigit(s[10]))
    THEN LET h  == DigitsVal(SubSeq(s, 1, 2))
             m  == DigitsVal(SubSeq(s, 4, 5))
             sc == DigitsVal(SubSeq(s, 7, 8))
             f  == IF Len(s) = 10 THEN DigitVal(s[10]) ELSE 0
         IN  IF h <= 23 /\ m <= 59 /\ sc <= 59
             THEN ((h * 60 + m) * 60 + sc) * TicksPerSecond + (f * TicksPerSecond) \div 10
             ELSE NaT
    ELSE NaT

\* pd.to_datetime(text, errors="coerce", dayfirst=True) on the texts the model
\* draws: DD/MM/YYYY, optionally followed by a blank and HH:MM:SS or HH:MM:SS.f,
\* the first field being the day.  Any other text is NaT.
to_datetime(s) ==
    IF Len(s) <= 10
    THEN (IF DayFirstDate(s) = NaT THEN NaT ELSE Midnight(DayFirstDate(s)))
    ELSE LET day == DayFirstDate(SubSeq(s, 1, 10))
             tod == TimeOfDay(SubSeq(s, 12, Len(s)))
         IN  IF s[11] = " " /\ day # NaT /\ tod # NaT
             THEN Midnight(day) + tod
             ELSE NaT

-----------------------------------------------------------------------------
(* Tables *)

Range(f) == {f[i] : i \in DOMAIN f}

\* Position of header h in a header row (read_csv makes headers distinct)
IndexOf(cols, h) == CHOOSE k \in 1..Len(cols) : cols[k] = h

\* Series.astype(str) / str(cell): a missing cell prints as "nan"
astype_str(c) == IF c = <<>> THEN <<"n","a","n">> ELSE c

BlankDf == [cols |-> <<>>, rows |-> <<>>]

EmptyMap == <<>>

BlankScreen ==
    [error |-> FALSE, controls |-> FALSE, chart |-> FALSE, band |-> <<>>,
     legend |-> FALSE, table |-> FALSE]

-----------------------------------------------------------------------------
(* load_data *)

\* Line 26: c.strip().lower() in ("data", "date")
IsDateHeader(c) ==
    lower(strip(c)) \in {<<"d","a","t","a">>, <<"d","a","t","e">>}

\* FindDateCol without the break of line 28: the last match wins
FindDateColNoBreak(cols) ==
    IF \E k \in 1..Len(cols) : IsDateHeader(cols[k])
    THEN CHOOSE k \in 1..Len(cols) :
            IsDateHeader(cols[k]) /\ \A j \in (k + 1)..Len(cols) : ~IsDateHeader(cols[j])
    ELSE 0

\* Lines 24-28: the first header, in column order, that matches; 0 for None
FindDateCol(cols) ==
    IF \E k \in 1..Len(cols) : IsDateHeader(cols[k])
    THEN CHOOSE k \in 1..Len(cols) :
            IsDateHeader(cols[k]) /\ \A j \in 1..(k - 1) : ~IsDateHeader(cols[j])
    ELSE 0

\* Line 31: the timestamp column parsed; every row keeps its file line
ParseRows(rows, k) ==
    [i \in 1..Len(rows) |->
        [t    |-> to_datetime(rows[i][k]),
         line |-> i,
         c    |-> [j \in 1..Len(rows[i]) |-> IF j = k THEN <<>> ELSE rows[i][j]]]]

IndexOrders(n) ==
    {p \in [1..n -> 1..n] : \A i, j \in 1..n : p[i] = p[j] => i = j}

\* Line 32: df.sort_values(by=date_col) with the defaults kind="quicksort",
\* na_position="last".  The rows with a timestamp come first in non-decreasing
\* order; quicksort is not a stable sort, so rows with equal timestamps may come
\* out in any order.  The NaT rows are appended after them in their file order.
SortOrders(rows) ==
    {p \in IndexOrders(Len(rows)) :
        \A i, j \in 1..Len(rows) :
            i < j =>
                LET a == rows[p[i]]
                    b == rows[p[j]]
                IN  /\ a.t = NaT => b.t = NaT
                    /\ (a.t # NaT /\ b.t # NaT) => a.t <= b.t
                    /\ (a.t = NaT /\ b.t = NaT) => p[i] < p[j]}

sort_values(rows) ==
    {[i \in 1..Len(rows) |-> rows[p[i]]] : p \in SortOrders(rows)}

\* Lines 21-33: the outcomes of load_data on a file.  ok = FALSE is a raised
\* exception (read_csv failed, or the ValueError of line 30).
load_data(file) ==
    IF ~file.readable
    THEN {[ok |-> FALSE, df |-> BlankDf, date_col |-> <<>>]}
    ELSE LET k == FindDateCol(file.headers)
         IN  IF k = 0
             THEN {[ok |-> FALSE, df |-> BlankDf, date_col |-> <<>>]}
             ELSE {[ok       |-> TRUE,
                    df       |-> [cols |-> file.headers, rows |-> r],
                    date_col |-> file.headers[k]] :
                        r \in sort_values(ParseRows(file.rows, k))}

-----------------------------------------------------------------------------
(* load_refs *)

Exame == <<"E","x","a","m","e">>

Minimo == <<"M","í","n","i","m","o">>

Maximo == <<"M","á","x","i","m","o">>

\* Line 49: the normalised key of a reference row
RefKey(file, row) == lower(strip(astype_str(row[IndexOf(file.headers, Exame)])))

\* Lines 51-52: one bound, decimal comma replaced, coerced
RefBound(file, row, h) ==
    to_numeric(replace(astype_str(row[IndexOf(file.headers, h)]), ",", "."))

\* BuildRefMap keeping the first row of a key instead of the last
RECURSIVE BuildRefMapFirstWins(_, _)
BuildRefMapFirstWins(file, n) ==
    IF n = 0 THEN EmptyMap
    ELSE LET acc == BuildRefMapFirstWins(file, n - 1)
             row == file.rows[n]
             key == RefKey(file, row)
             val == <<RefBound(file, row, Minimo), RefBound(file, row, Maximo)>>
         IN  [k \in (DOMAIN acc) \cup {key} |-> IF k \in DOMAIN acc THEN acc[k] ELSE val]

\* Lines 50-54: the dict comprehension, row after row; a later row overwrites
RECURSIVE BuildRefMap(_, _)
BuildRefMap(file, n) ==
    IF n = 0 THEN EmptyMap
    ELSE LET acc == BuildRefMap(file, n - 1)
             row == file.rows[n]
             key == RefKey(file, row)
             val == <<RefBound(file, row, Minimo), RefBound(file, row, Maximo)>>
         IN  [k \in (DOMAIN acc) \cup {key} |-> IF k = key THEN val ELSE acc[k]]

\* Lines 37-55
load_refs(file) ==
    IF ~file.exists THEN EmptyMap
    ELSE IF ~file.parses THEN EmptyMap
    ELSE IF ~({Exame, Minimo, Maximo} \subseteq Range(file.headers)) THEN EmptyMap
    ELSE BuildRefMap(file, Len(file.rows))

-----------------------------------------------------------------------------
(* st.cache_data *)

NoEntry == [cached |-> FALSE]

\* A store that never answers: the function body runs on every call
CacheNeverHit(cache, path) == FALSE

\* The store holds a value for this argument
CacheHit(cache, path) == cache[path].cached

\* The store after the function returned value for path
CachePut(cache, path, value) ==
    [cache EXCEPT ![path] = [cached |-> TRUE, value |-> value]]

-----------------------------------------------------------------------------
(* Candidate detection, lines 65-76 *)

RefMarkerDash == <<" ","-"," ","R","e","f">>

RefMarkerParen == <<"(","R","e","f">>

\* Line 71
HasRefMarker(c) == Contains(c, RefMarkerDash) \/ Contains(c, RefMarkerParen)

\* Line 73: the column at position k, decimal commas replaced, coerced
NumericColumn(table, k) ==
    [i \in 1..Len(table.rows) |->
        to_numeric(replace(astype_str(table.rows[i].c[k]), ",", "."))]

\* IsCandidate with errors="raise" semantics: one malformed cell loses the column
IsCandidateStrict(table, dateCol, k) ==
    /\ table.cols[k] # dateCol
    /\ ~HasRefMarker(table.cols[k])
    /\ table.rows # <<>>
    /\ \A i \in 1..Len(table.rows) : notna(NumericColumn(table, k)[i])

\* Lines 69-74: whether the loop appends the column at position k
IsCandidate(table, dateCol, k) ==
    /\ table.cols[k] # dateCol
    /\ ~HasRefMarker(table.cols[k])
    /\ \E i \in 1..Len(table.rows) : notna(NumericColumn(table, k)[i])

\* Lines 66-76: the candidate headers in column order
DetectCandidates(table, dateCol) ==
    LET keep == {k \in 1..Len(table.cols) : IsCandidate(table, dateCol, k)}
        F[k \in 0..Len(table.cols)] ==
            IF k = 0 THEN <<>>
            ELSE IF k \in keep THEN Append(F[k - 1], table.cols[k]) ELSE F[k - 1]
    IN  F[Len(table.cols)]

\* Lines 67, 75: the numeric columns of nn, by header
NumericColumns(table, cands) ==
    [h \in Range(cands) |-> NumericColumn(table, IndexOf(table.cols, h))]

-----------------------------------------------------------------------------
(* Sidebar controls, lines 82-98 *)

RollingMax == 30

Stamped(table) == {i \in 1..Len(table.rows) : table.rows[i].t # NaT}

\* Lines 86-87: df[date_col].min() and .max() skip NaT
MinStamp(table) ==
    CHOOSE t \in {table.rows[i].t : i \in Stamped(table)} :
        \A i \in Stamped(table) : t <= table.rows[i].t

MaxStamp(table) ==
    CHOOSE t \in {table.rows[i].t : i \in Stamped(table)} :
        \A i \in Stamped(table) : t >= table.rows[i].t

\* Lines 88-94: what st.date_input can return: both dates, between min_value
\* and max_value, or the first date alone while the second is being picked
DateRanges(table) ==
    IF Stamped(table) = {} THEN {}
    ELSE LET lo == DateOf(MinStamp(table))
             hi == DateOf(MaxStamp(table))
         IN  {<<s, e>> : s \in lo..hi, e \in lo..hi} \cup {<<s>> : s \in lo..hi}

ValidDateRange(table, dr) ==
    /\ dr \in DateRanges(table)
    /\ Len(dr) = 2 => dr[1] <= dr[2]

-----------------------------------------------------------------------------
(* Date filter, lines 102-108 *)

\* Line 105: the mask entry of a timestamp; a comparison with NaT is False
InRange(t, start, end) ==
    /\ t # NaT
    /\ t >= start
    /\ t <= end + DayTicks - Second

\* Lines 103-108: the positions of df that are displayed, in order
KeptRows(table, dr) ==
    IF Len(dr) = 2
    THEN SelectSeq([i \in 1..Len(table.rows) |-> i],
                   LAMBDA i : InRange(table.rows[i].t, Midnight(dr[1]), Midnight(dr[2])))
    ELSE [i \in 1..Len(table.rows) |-> i]

\* dff = nn.loc[m, [date_col, feature]].copy()
DateFilter(table, numeric, feat, dr) ==
    LET keep == KeptRows(table, dr)
    IN  [j \in 1..Len(keep) |->
            [t |-> table.rows[keep[j]].t, v |-> numeric[feat][keep[j]]]]

-----------------------------------------------------------------------------
(* Moving average, lines 110-114 *)

NumAdd(a, b) == [n |-> a.n * b.d + b.n * a.d, d |-> a.d * b.d]

NumSub(a, b) == [n |-> a.n * b.d - b.n * a.d, d |-> a.d * b.d]

Zero == [n |-> 0, d |-> 1]

\* Series.rolling(w, min_periods=1).mean(): the window slides over the
\* positions; entering position i adds its value, leaving position i - w
\* removes it; a missing value is neither added nor removed; the mean is the
\* running sum over the running count, NaN while the count is 0.
RECURSIVE RollState(_, _, _)
RollState(vals, w, i) ==
    IF i = 0 THEN [sum |-> Zero, nobs |-> 0]
    ELSE LET prev  == RollState(vals, w, i - 1)
             added == IF notna(vals[i])
                      THEN [sum |-> NumAdd(prev.sum, vals[i]), nobs |-> prev.nobs + 1]
                      ELSE prev
         IN  IF i > w /\ notna(vals[i - w])
             THEN [sum |-> NumSub(added.sum, vals[i - w]), nobs |-> added.nobs - 1]
             ELSE added

MinPeriods == 1

RollingMean(vals, w) ==
    [i \in 1..Len(vals) |->
        LET st == RollState(vals, w, i)
        IN  IF st.nobs >= MinPeriods
            THEN [n |-> st.sum.n, d |-> st.sum.d * st.nobs]
            ELSE NaN]

\* MovingAverage with rolling(w) left at its default min_periods: no value
\* until the window is full
MovingAverageFullWindow(rows, w) ==
    IF w > 0
    THEN [i \in 1..Len(rows) |->
            IF i >= w /\ \A k \in (i - w + 1)..i : notna(rows[k].v)
            THEN RollingMean([j \in 1..Len(rows) |-> rows[j].v], w)[i]
            ELSE NaN]
    ELSE <<>>

\* Lines 111-114: the added column, <<>> when rolling is 0
MovingAverage(rows, w) ==
    IF w > 0 THEN RollingMean([i \in 1..Len(rows) |-> rows[i].v], w) ELSE <<>>

-----------------------------------------------------------------------------
(* Reference band, lines 131-143 *)

\* Line 132
RefLookupKey(feat) == lower(strip(feat))

\* ReferenceBand with "or" for the "and" of line 135
ReferenceBandEitherBound(show, refs, feat) ==
    IF show /\ RefLookupKey(feat) \in DOMAIN refs
    THEN LET pair == refs[RefLookupKey(feat)]
         IN  IF notna(pair[1]) \/ notna(pair[2]) THEN pair ELSE <<>>
    ELSE <<>>

\* Lines 133-135: the band drawn, <<>> when none is
ReferenceBand(show, refs, feat) ==
    IF show /\ RefLookupKey(feat) \in DOMAIN refs
    THEN LET pair == refs[RefLookupKey(feat)]
         IN  IF notna(pair[1]) /\ notna(pair[2]) THEN pair ELSE <<>>
    ELSE <<>>

-----------------------------------------------------------------------------
(* One run of the script *)

files == <<csvFile, refFile>>

env == <<csvPath, refPath>>

loaded == <<df, date_col>>

detected == <<nn, candidates>>

controls == <<feature, date_range, rolling, show_ref_band>>

series == <<dff, mm, series_to_plot>>

\* Lines 57-61: load_data through its cache.  A raised exception is not
\* stored; it is reported with st.error and st.stop() ends the run.
LoadData ==
    /\ pc = "load_data"
    /\ LET hit      == CacheHit(dataCache, csvPath)
           outcomes == IF hit THEN {dataCache[csvPath].value}
                       ELSE load_data(csvFile[csvPath])
       IN  \E r \in outcomes :
             /\ parses' = IF hit THEN parses
                          ELSE [parses EXCEPT !.data[csvPath] = @ + 1]
             /\ IF r.ok
                THEN /\ dataCache' = IF hit THEN dataCache
                                     ELSE CachePut(dataCache, csvPath, r)
                     /\ df' = r.df
                     /\ date_col' = r.date_col
                     /\ pc' = "load_refs"
                     /\ UNCHANGED screen
                ELSE /\ screen' = [screen EXCEPT !.error = TRUE]
                     /\ pc' = "stopped"
                     /\ UNCHANGED <<dataCache, df, date_col>>
    /\ UNCHANGED <<files, env, refsCache, runs, ref_map, detected, controls, series>>

\* LoadRefs without the try/except of lines 40-43: a file that cannot be
\* parsed raises, and the exception ends the run
LoadRefsUncaught ==
    /\ pc = "load_refs"
    /\ LET hit    == CacheHit(refsCache, refPath)
           raises == ~hit /\ refFile[refPath].exists /\ ~refFile[refPath].parses
           m      == IF hit THEN refsCache[refPath].value ELSE load_refs(refFile[refPath])
       IN  /\ parses' = IF hit THEN parses
                        ELSE [parses EXCEPT !.refs[refPath] = @ + 1]
           /\ IF raises
              THEN /\ screen' = [screen EXCEPT !.error = TRUE]
                   /\ pc' = "crashed"
                   /\ UNCHANGED <<refsCache, ref_map>>
              ELSE /\ refsCache' = IF hit THEN refsCache ELSE CachePut(refsCache, refPath, m)
                   /\ ref_map' = m
                   /\ pc' = "detect"
                   /\ UNCHANGED screen
    /\ UNCHANGED <<files, env, dataCache, runs, loaded, detected, controls, series>>

\* Line 63: load_refs through its cache
LoadRefs ==
    /\ pc = "load_refs"
    /\ LET hit == CacheHit(refsCache, refPath)
           m   == IF hit THEN refsCache[refPath].value ELSE load_refs(refFile[refPath])
       IN  /\ parses' = IF hit THEN parses
                        ELSE [parses EXCEPT !.refs[refPath] = @ + 1]
           /\ refsCache' = IF hit THEN refsCache ELSE CachePut(refsCache, refPath, m)
           /\ ref_map' = m
    /\ pc' = "detect"
    /\ UNCHANGED <<files, env, dataCache, runs, loaded, detected, controls, series, screen>>

\* Detect without the st.stop() of line 80: the error is reported and the run
\* goes on to the sidebar
DetectNoStop ==
    /\ pc = "detect"
    /\ LET cands == DetectCandidates(df, date_col)
       IN  /\ candidates' = cands
           /\ nn' = NumericColumns(df, cands)
           /\ screen' = IF cands = <<>> THEN [screen EXCEPT !.error = TRUE] ELSE screen
           /\ pc' = "controls"
    /\ UNCHANGED <<files, env, dataCache, refsCache, parses, runs, loaded, ref_map,
                   controls, series>>

\* Lines 65-80: candidate detection; with no candidate the run reports and stops
Detect ==
    /\ pc = "detect"
    /\ LET cands == DetectCandidates(df, date_col)
       IN  /\ candidates' = cands
           /\ nn' = NumericColumns(df, cands)
           /\ IF cands = <<>>
              THEN /\ screen' = [screen EXCEPT !.error = TRUE]
                   /\ pc' = "stopped"
              ELSE /\ UNCHANGED screen
                   /\ pc' = "controls"
    /\ UNCHANGED <<files, env, dataCache, refsCache, parses, runs, loaded, ref_map,
                   controls, series>>

\* Lines 82-100: the sidebar returns the user's current choices
Controls(f, dr, w, s) ==
    /\ pc = "controls"
    /\ Stamped(df) # {}
    /\ f \in Range(candidates)
    /\ ValidDateRange(df, dr)
    /\ w \in 0..RollingMax
    /\ s \in BOOLEAN
    /\ feature' = f
    /\ date_range' = dr
    /\ rolling' = w
    /\ show_ref_band' = s
    /\ screen' = [screen EXCEPT !.controls = TRUE]
    /\ pc' = "filter"
    /\ UNCHANGED <<files, env, dataCache, refsCache, parses, runs, loaded, ref_map,
                   detected, series>>

\* Lines 86-94 when no timestamp parsed: min_d and max_d are NaT and the date
\* input cannot be built; the exception ends the run.
ControlsFail ==
    /\ pc = "controls"
    /\ Stamped(df) = {}
    /\ screen' = [screen EXCEPT !.error = TRUE]
    /\ pc' = "crashed"
    /\ UNCHANGED <<files, env, dataCache, refsCache, parses, runs, loaded, ref_map,
                   detected, controls, series>>

\* Lines 102-108
Filter ==
    /\ pc = "filter"
    /\ dff' = DateFilter(df, nn, feature, date_range)
    /\ pc' = "rolling"
    /\ UNCHANGED <<files, env, dataCache, refsCache, parses, runs, loaded, ref_map,
                   detected, controls, mm, series_to_plot, screen>>

\* Lines 110-114
Rolling ==
    /\ pc = "rolling"
    /\ mm' = MovingAverage(dff, rolling)
    /\ series_to_plot' = IF rolling > 0 THEN 2 ELSE 1
    /\ pc' = "render"
    /\ UNCHANGED <<files, env, dataCache, refsCache, parses, runs, loaded, ref_map,
                   detected, controls, dff, screen>>

\* Lines 116-149: chart, reference band with its legend entry, table
Render ==
    /\ pc = "render"
    /\ LET band == ReferenceBand(show_ref_band, ref_map, feature)
       IN  screen' = [screen EXCEPT !.chart = TRUE, !.band = band,
                                    !.legend = (band # <<>>), !.table = TRUE]
    /\ pc' = "done"
    /\ UNCHANGED <<files, env, dataCache, refsCache, parses, runs, loaded, ref_map,
                   detected, controls, series>>

-----------------------------------------------------------------------------
(* Between runs *)

MaxRuns == 2

\* The run has ended with its controls on the page: the user can change one
Idle == pc \in {"done", "crashed"}

BlankRun ==
    /\ df = BlankDf
    /\ date_col = <<>>
    /\ ref_map = EmptyMap
    /\ nn = <<>>
    /\ candidates = <<>>
    /\ feature = <<>>
    /\ date_range = <<>>
    /\ rolling = 0
    /\ show_ref_band = FALSE
    /\ dff = <<>>
    /\ mm = <<>>
    /\ series_to_plot = 0
    /\ screen = BlankScreen

\* A control change: the script runs again from the top, in a fresh namespace,
\* and its output replaces the previous run's.  Lines 16-17 read the two paths
\* from the environment again.  The stores of st.cache_data outlive the run.
Rerun(p, q) ==
    /\ Idle
    /\ runs < MaxRuns
    /\ runs' = runs + 1
    /\ csvPath' = p
    /\ refPath' = q
    /\ pc' = "load_data"
    /\ df' = BlankDf
    /\ date_col' = <<>>
    /\ ref_map' = EmptyMap
    /\ nn' = <<>>
    /\ candidates' = <<>>
    /\ feature' = <<>>
    /\ date_range' = <<>>
    /\ rolling' = 0
    /\ show_ref_band' = FALSE
    /\ dff' = <<>>
    /\ mm' = <<>>
    /\ series_to_plot' = 0
    /\ screen' = BlankScreen
    /\ UNCHANGED <<files, dataCache, refsCache, parses>>

\* The measurements file of the run is rewritten in place
EditCsv(f) ==
    /\ Idle
    /\ csvFile[csvPath] # f
    /\ csvFile' = [csvFile EXCEPT ![csvPath] = f]
    /\ UNCHANGED <<refFile, env, dataCache, refsCache, parses, pc, runs, loaded,
                   ref_map, detected, controls, series, screen>>

\* The reference file of the run is rewritten, created or removed
EditRef(f) ==
    /\ Idle
    /\ refFile[refPath] # f
    /\ refFile' = [refFile EXCEPT ![refPath] = f]
    /\ UNCHANGED <<csvFile, env, dataCache, refsCache, parses, pc, runs, loaded,
                   ref_map, detected, controls, series, screen>>

-----------------------------------------------------------------------------
(* Inputs *)

CsvPaths == {"p1", "p2"}

RefPaths == {"r1", "r2"}

HData == <<"D","a","t","a">>

HDateUpper == <<" ","D","A","T","E"," ">>

HDateLower == <<"d","a","t","e">>

HDia == <<"D","i","a">>

HGlucose == <<"G","l","u","c","o","s","e">>

HGlucoseLower == <<" ","g","l","u","c","o","s","e"," ">>

HGlucoseUpper == <<"G","L","U","C","O","S","E">>

HGlucoseRef == <<"G","l","u","c","o","s","e"," ","-"," ","R","e","f">>

HHdlRef == <<"H","D","L"," ","(","R","e","f",")">>

HHdl == <<"H","D","L">>

HObs == <<"O","b","s">>

Jan01 == <<"0","1","/","0","1","/","2","0","2","4">>

Jan05 == <<"0","5","/","0","1","/","2","0","2","4">>

Feb01 == <<"0","1","/","0","2","/","2","0","2","4">>

NotADate == <<"n","/","a">>

T90 == <<"9","0">>

T100 == <<"1","0","0">>

T110 == <<"1","1","0">>

TText == <<"a","b">>

\* All sequences over S of length at most n
SeqsUpTo(S, n) == UNION {[1..k -> S] : k \in 0..n}

Injective(q) == \A i, j \in DOMAIN q : q[i] = q[j] => i = j

UnreadableCsv == [readable |-> FALSE, headers |-> <<>>, rows |-> <<>>]

MissingRef == [exists |-> FALSE, parses |-> FALSE, headers |-> <<>>, rows |-> <<>>]

NoParses == [data |-> [p \in CsvPaths |-> 0], refs |-> [p \in RefPaths |-> 0]]

\* The first run is about to call load_data; nothing is cached yet
FreshStart ==
    /\ dataCache = [p \in CsvPaths |-> NoEntry]
    /\ refsCache = [p \in RefPaths |-> NoEntry]
    /\ parses = NoParses
    /\ runs = 1
    /\ BlankRun

-----------------------------------------------------------------------------
(* load_data on every small measurements file *)

MaxHeaders == 3

MaxLoadRows == 3

LoadHeaders == {HData, HDateUpper, HDateLower, HGlucose, HDia}

LoadDateCells == {Jan05, Feb01, NotADate}

\* A file with the given header row; every date column holds the row's date
\* text, every other column the text 90
CsvOf(headers, dates) ==
    [readable |-> TRUE,
     headers  |-> headers,
     rows     |-> [i \in 1..Len(dates) |->
                     [j \in 1..Len(headers) |->
                         IF IsDateHeader(headers[j]) THEN dates[i] ELSE T90]]]

LoadCsvFiles ==
    {UnreadableCsv} \cup
    {CsvOf(h, d) : h \in {q \in SeqsUpTo(LoadHeaders, MaxHeaders) : Injective(q)},
                   d \in SeqsUpTo(LoadDateCells, MaxLoadRows)}

InitLoad ==
    /\ csvPath = "p1"
    /\ refPath = "r1"
    /\ \E f \in LoadCsvFiles : csvFile = [p \in CsvPaths |-> f]
    /\ refFile = [p \in RefPaths |-> MissingRef]
    /\ pc = "load_data"
    /\ FreshStart

NextLoad == LoadData

SpecLoad == InitLoad /\ [][NextLoad]_vars


\* The label the specification gives a timestamp header: its trimmed,
\* lower-cased text is "data" or "date"
TimestampLabels == {<<"d","a","t","a">>, <<"d","a","t","e">>}

LabelledColumns(headers) ==
    {k \in 1..Len(headers) : lower(strip(headers[k])) \in TimestampLabels}

LoadReturned == pc \in {"load_refs", "stopped"}

\* C1: for every header row of a readable file, load_data returns as timestamp
\* field the original name of the first header, in column order, whose trimmed,
\* lower-cased text is "data" or "date", with the table of that file; when no
\* header matches it fails: an error is reported, no table is returned and the
\* run stops.
C1_FirstDateHeader ==
    LET file  == csvFile[csvPath]
        match == LabelledColumns(file.headers)
    IN  (LoadReturned /\ file.readable) =>
            IF match # {}
            THEN /\ pc = "load_refs"
                 /\ date_col = file.headers[CHOOSE k \in match : \A j \in match : k <= j]
                 /\ df.cols = file.headers
                 /\ Len(df.rows) = Len(file.rows)
                 /\ ~screen.error
            ELSE /\ pc = "stopped"
                 /\ df = BlankDf
                 /\ date_col = <<>>
                 /\ screen.error

\* Two headers match and the first of them, returned as written in the file,
\* is not in trimmed lower case; another column precedes it.
C1_Witness ==
    LET file == csvFile[csvPath]
    IN  /\ pc = "load_refs"
        /\ Cardinality(LabelledColumns(file.headers)) >= 2
        /\ date_col = HDateUpper
        /\ file.headers[1] = HGlucose

\* A file without any matching header has been refused.
C1_WitnessFail ==
    /\ pc = "stopped"
    /\ csvFile[csvPath].readable
    /\ Len(csvFile[csvPath].headers) >= 2

\* C5: the table returned by load_data holds every row of the file, is sorted
\* non-decreasing by timestamp, keeps rows with equal timestamps in their file
\* order, and has every row without a timestamp at one consistent end.
C5_SortedStable ==
    LET n == Len(df.rows)
        t(i) == df.rows[i].t
    IN  pc = "load_refs" =>
          /\ n = Len(csvFile[csvPath].rows)
          /\ {df.rows[i].line : i \in 1..n} = 1..n
          /\ \A i, j \in 1..n :
                (i < j /\ t(i) # NaT /\ t(j) # NaT) => t(i) <= t(j)
          /\ \A i, j \in 1..n :
                (i < j /\ t(i) = t(j)) => df.rows[i].line < df.rows[j].line
          /\ \/ \A i, j \in 1..n : (i < j /\ t(i) = NaT) => t(j) = NaT
             \/ \A i, j \in 1..n : (i < j /\ t(j) = NaT) => t(i) = NaT


-----------------------------------------------------------------------------
(* The date filter on every small measurements file with times of day *)

MaxFilterRows == 3

TMidnight == <<" ","0","0",":","0","0",":","0","0",".","0">>

TLastSecond == <<" ","2","3",":","5","9",":","5","9",".","0">>

TLastHalfSecond == <<" ","2","3",":","5","9",":","5","9",".","5">>

Jan02 == <<"0","2","/","0","1","/","2","0","2","4">>

Jan03 == <<"0","3","/","0","1","/","2","0","2","4">>

FilterDateCells ==
    {Jan01 \o TMidnight, Jan02 \o TMidnight, Jan02 \o TLastSecond,
     Jan02 \o TLastHalfSecond, Jan03 \o TMidnight, NotADate}

FilterCsvFiles ==
    {CsvOf(<<HData, HGlucose>>, d) : d \in SeqsUpTo(FilterDateCells, MaxFilterRows)}

InitFilter ==
    /\ csvPath = "p1"
    /\ refPath = "r1"
    /\ \E f \in FilterCsvFiles : csvFile = [p \in CsvPaths |-> f]
    /\ refFile = [p \in RefPaths |-> MissingRef]
    /\ pc = "load_data"
    /\ FreshStart

NextFilter ==
    \/ LoadData
    \/ LoadRefs
    \/ Detect
    \/ \E dr \in DateRanges(df) : Controls(HGlucose, dr, 0, TRUE)
    \/ ControlsFail
    \/ Filter

SpecFilter == InitFilter /\ [][NextFilter]_vars

Filtered == pc \in {"rolling", "render", "done"}

\* C2: with a range (start, end) the displayed rows are exactly the loaded
\* rows whose timestamp t satisfies start <= t < end + 1 day, in table order,
\* each with its timestamp and its numeric value; without a two-date range
\* every loaded row is displayed.
C2_HalfOpenRange ==
    LET n    == Len(df.rows)
        want == IF Len(date_range) = 2
                THEN SelectSeq([i \in 1..n |-> i],
                               LAMBDA i : /\ df.rows[i].t # NaT
                                          /\ Midnight(date_range[1]) <= df.rows[i].t
                                          /\ df.rows[i].t < Midnight(date_range[2]) + DayTicks)
                ELSE [i \in 1..n |-> i]
    IN  Filtered =>
            dff = [j \in 1..Len(want) |->
                      [t |-> df.rows[want[j]].t, v |-> nn[feature][want[j]]]]


-----------------------------------------------------------------------------
(* The moving average on every small measurements file *)

MaxRollRows == 3

MaxWindow == 2

RollDateCells == {Jan01, Jan02}

RollValueCells == {T90, T110, T100, TText}

\* A file with the columns Data and Glucose
TwoColumnCsv(cells) ==
    [readable |-> TRUE,
     headers  |-> <<HData, HGlucose>>,
     rows     |-> [i \in 1..Len(cells) |-> <<cells[i][1], cells[i][2]>>]]

RollCsvFiles ==
    {TwoColumnCsv(r) : r \in SeqsUpTo(RollDateCells \X RollValueCells, MaxRollRows)}

InitRoll ==
    /\ csvPath = "p1"
    /\ refPath = "r1"
    /\ \E f \in RollCsvFiles : csvFile = [p \in CsvPaths |-> f]
    /\ refFile = [p \in RefPaths |-> MissingRef]
    /\ pc = "load_data"
    /\ FreshStart

NextRoll ==
    \/ LoadData
    \/ LoadRefs
    \/ Detect
    \/ \E dr \in {d \in DateRanges(df) : Len(d) = 2}, w \in 0..MaxWindow :
          Controls(HGlucose, dr, w, TRUE)
    \/ Filter
    \/ Rolling

SpecRoll == InitRoll /\ [][NextRoll]_vars

Rolled == pc \in {"render", "done"}

RECURSIVE SumOf(_, _)
SumOf(vals, S) ==
    IF S = {} THEN Zero
    ELSE LET k == CHOOSE x \in S : TRUE
         IN  NumAdd(vals[k], SumOf(vals, S \ {k}))

\* C3: with window w > 0, the moving-average value at every displayed row i is
\* the mean of the non-missing raw values at the displayed rows
\* max(first, i - w + 1)..i, missing only when all of them are missing (rows
\* removed by the date filter never contribute); with w = 0 no series is added
\* and only the timestamp and the raw value are output.
C3_TrailingMean ==
    LET raw == [i \in 1..Len(dff) |-> dff[i].v]
    IN  Rolled =>
          IF rolling > 0
          THEN /\ series_to_plot = 2
               /\ Len(mm) = Len(dff)
               /\ \A i \in 1..Len(dff) :
                    LET lo      == IF i - rolling + 1 > 1 THEN i - rolling + 1 ELSE 1
                        present == {k \in lo..i : notna(raw[k])}
                        total   == SumOf(raw, present)
                    IN  IF present = {}
                        THEN mm[i] = NaN
                        ELSE NumEq(mm[i], [n |-> total.n,
                                           d |-> total.d * Cardinality(present)])
          ELSE /\ series_to_plot = 1
               /\ mm = <<>>

IsValue(x, v) == NumEq(x, [n |-> v, d |-> 1])

\* Raw values 90, 110, 100 with w = 2 gave 90, 100, 105.
C3_Witness ==
    /\ Rolled
    /\ rolling = 2
    /\ Len(dff) = 3
    /\ IsValue(dff[1].v, 90) /\ IsValue(dff[2].v, 110) /\ IsValue(dff[3].v, 100)
    /\ IsValue(mm[1], 90) /\ IsValue(mm[2], 100) /\ IsValue(mm[3], 105)


\* The date filter removed an earlier row with a value, and the first
\* displayed row's average is its own value alone.
C3_WitnessFiltered ==
    /\ Rolled
    /\ rolling = 2
    /\ Len(dff) = 2
    /\ Len(df.rows) = 3
    /\ notna(nn[feature][1])
    /\ dff[1].t # df.rows[1].t
    /\ IsValue(dff[1].v, 110) /\ IsValue(mm[1], 110)
    /\ IsValue(nn[feature][1], 90)

-----------------------------------------------------------------------------
(* Candidate detection on every small measurements file *)

MaxDetectRows == 2

DetectHeaders == {HGlucose, HGlucoseRef, HHdlRef, HObs}

TDecimalComma == <<"5",",","5">>

DetectCells == {T90, TDecimalComma, TText, <<>>}

DetectDates == <<Jan01, Jan02, Jan03, Jan05, Feb01>>

\* A file with the columns Data, h1, h2; the rows are dated on distinct days
ThreeColumnCsv(h1, h2, cells) ==
    [readable |-> TRUE,
     headers  |-> <<HData, h1, h2>>,
     rows     |-> [i \in 1..Len(cells) |->
                     <<DetectDates[((i - 1) % Len(DetectDates)) + 1],
                       cells[i][1], cells[i][2]>>]]

DetectCsvFiles ==
    {ThreeColumnCsv(h1, h2, r) :
        h1 \in DetectHeaders, h2 \in DetectHeaders,
        r \in SeqsUpTo(DetectCells \X DetectCells, MaxDetectRows)}

InitDetect ==
    /\ csvPath = "p1"
    /\ refPath = "r1"
    /\ \E f \in {g \in DetectCsvFiles : g.headers[2] # g.headers[3]} :
          csvFile = [p \in CsvPaths |-> f]
    /\ refFile = [p \in RefPaths |-> MissingRef]
    /\ pc = "load_data"
    /\ FreshStart

NextDetect ==
    \/ LoadData
    \/ LoadRefs
    \/ Detect

SpecDetect == InitDetect /\ [][NextDetect]_vars

Detected == pc \in {"controls", "stopped"} /\ df # BlankDf

\* The cell of row i, column k, decimal commas replaced by points, as a number
CellValue(i, k) == to_numeric(replace(astype_str(df.rows[i].c[k]), ",", "."))

\* C4: a column is a candidate measurement if and only if it is not the
\* timestamp field, its header contains neither " - Ref" nor "(Ref", and at
\* least one of its cells is numeric after replacing decimal commas by points;
\* a malformed cell is missing for that cell only, every other cell of the
\* column keeps its value; a column with a reference marker is never a
\* candidate.
C4_Candidates ==
    Detected =>
        \A k \in 1..Len(df.cols) :
            LET h      == df.cols[k]
                marked == \/ Contains(h, <<" ","-"," ","R","e","f">>)
                          \/ Contains(h, <<"(","R","e","f">>)
            IN  /\ (h \in Range(candidates)) <=>
                      /\ h # date_col
                      /\ ~marked
                      /\ \E i \in 1..Len(df.rows) : notna(CellValue(i, k))
                /\ marked => h \notin Range(candidates)
                /\ h \in Range(candidates) =>
                      /\ h \in DOMAIN nn
                      /\ nn[h] = [i \in 1..Len(df.rows) |-> CellValue(i, k)]

\* A candidate column holds a malformed cell beside a decimal-comma cell, and a
\* column with a reference marker and numeric content is not a candidate.
C4_Witness ==
    /\ pc = "controls"
    /\ candidates = <<HGlucose>>
    /\ df.cols[3] = HHdlRef
    /\ \E i \in 1..Len(df.rows) : notna(CellValue(i, 3))
    /\ \E i, j \in 1..Len(df.rows) :
          /\ df.rows[i].c[2] = TText /\ nn[HGlucose][i] = NaN
          /\ df.rows[j].c[2] = TDecimalComma /\ NumEq(nn[HGlucose][j], [n |-> 11, d |-> 2])


-----------------------------------------------------------------------------
(* load_refs and the reference band on every small reference file *)

MaxRefRows == 2

ExameLower == <<"e","x","a","m","e">>

RefHeaderRows ==
    {<<Exame, Minimo, Maximo>>, <<Maximo, Exame, Minimo>>, <<Exame, Minimo>>,
     <<ExameLower, Minimo, Maximo>>}

T70Comma == <<"7","0",",","0">>

T99Comma == <<"9","9",",","0">>

RefNames == {HGlucose, HGlucoseLower, HHdl}

RefMins == {T70Comma, TText}

RefMaxs == {T99Comma, <<>>}

\* A reference file with the given header row and rows of (name, min, max)
RefOf(headers, triples) ==
    [exists  |-> TRUE,
     parses  |-> TRUE,
     headers |-> headers,
     rows    |-> [i \in 1..Len(triples) |->
                    [j \in 1..Len(headers) |->
                        IF headers[j] \in {Exame, ExameLower} THEN triples[i][1]
                        ELSE IF headers[j] = Minimo THEN triples[i][2]
                        ELSE triples[i][3]]]]

UnparseableRef == [exists |-> TRUE, parses |-> FALSE, headers |-> <<>>, rows |-> <<>>]

RefFiles ==
    {MissingRef, UnparseableRef} \cup
    {RefOf(h, r) : h \in RefHeaderRows,
                   r \in SeqsUpTo(RefNames \X RefMins \X RefMaxs, MaxRefRows)}

RefFeatures == {HGlucose, HGlucoseLower, HGlucoseUpper, HHdl}

InitRefs ==
    /\ csvPath = "p1"
    /\ refPath = "r1"
    /\ \E h \in RefFeatures :
          csvFile = [p \in CsvPaths |->
                        [TwoColumnCsv(<<<<Jan01, T90>>>>) EXCEPT !.headers = <<HData, h>>]]
    /\ \E f \in RefFiles : refFile = [p \in RefPaths |-> f]
    /\ pc = "load_data"
    /\ FreshStart

NextRefs ==
    \/ LoadData
    \/ LoadRefs
    \/ Detect
    \/ \E f \in RefFeatures, dr \in {d \in DateRanges(df) : Len(d) = 2}, s \in BOOLEAN :
          Controls(f, dr, 0, s)
    \/ Filter
    \/ Rolling
    \/ Render

SpecRefs == InitRefs /\ [][NextRefs]_vars

\* load_data returned a table and load_refs has been called
RefsReturned == pc \notin {"load_data", "load_refs"} /\ df # BlankDf

\* The three headers are present, written exactly "Exame", "Mínimo", "Máximo"
RequiredHeaders(file) ==
    /\ <<"E","x","a","m","e">> \in Range(file.headers)
    /\ <<"M","í","n","i","m","o">> \in Range(file.headers)
    /\ <<"M","á","x","i","m","o">> \in Range(file.headers)

ValidRef(file) == file.exists /\ file.parses /\ RequiredHeaders(file)

\* C6: load_refs never raises and never stops the run; when the path does not
\* exist, the file cannot be parsed or one of the three headers is absent
\* (exact match), it returns the empty mapping, and the run goes on to draw the
\* chart without a reference band.
C6_RefsNeverFatal ==
    /\ pc \notin {"stopped", "crashed"}
    /\ ~screen.error
    /\ (RefsReturned /\ ~ValidRef(refFile[refPath])) =>
          /\ ref_map = EmptyMap
          /\ screen.band = <<>>
          /\ ~screen.legend
          /\ pc = "done" => (screen.chart /\ screen.table)

\* The chart was drawn without a band, the band being asked for, for a file
\* that exists and parses but names its first column "exame".
C6_Witness ==
    /\ pc = "done"
    /\ show_ref_band
    /\ screen.chart
    /\ screen.band = <<>>
    /\ refFile[refPath].headers = <<ExameLower, Minimo, Maximo>>
    /\ Len(refFile[refPath].rows) = 2


\* The rows of a valid reference file read by the header names
NameOf(file, i) == file.rows[i][IndexOf(file.headers, <<"E","x","a","m","e">>)]

MinOf(file, i) == file.rows[i][IndexOf(file.headers, <<"M","í","n","i","m","o">>)]

MaxOf(file, i) == file.rows[i][IndexOf(file.headers, <<"M","á","x","i","m","o">>)]

Normalised(name) == lower(strip(astype_str(name)))

Coerced(text) == to_numeric(replace(astype_str(text), ",", "."))

\* C9: for a valid reference file the map has exactly one entry per distinct
\* trimmed, lower-cased exam name; its value is the (minimum, maximum) pair of
\* the last file row with that normalised name, each bound parsed after
\* replacing the decimal comma; the band drawn for the selected measurement is
\* the entry of its trimmed, lower-cased name.
C9_LastRowPerKey ==
    LET file == refFile[refPath]
        n    == Len(file.rows)
    IN  (RefsReturned /\ ValidRef(file)) =>
          /\ DOMAIN ref_map = {Normalised(NameOf(file, i)) : i \in 1..n}
          /\ \A i \in 1..n :
                (\A j \in (i + 1)..n :
                    Normalised(NameOf(file, j)) # Normalised(NameOf(file, i)))
                => ref_map[Normalised(NameOf(file, i))] =
                      <<Coerced(MinOf(file, i)), Coerced(MaxOf(file, i))>>
          /\ (pc = "done" /\ screen.band # <<>>) =>
                /\ lower(strip(feature)) \in DOMAIN ref_map
                /\ screen.band = ref_map[lower(strip(feature))]

\* "Glucose" then " glucose " in the file: one entry, "glucose", holding the
\* second row's "70,0", "99,0" as (70.0, 99.0), drawn for the column GLUCOSE.
C9_Witness ==
    LET file == refFile[refPath]
    IN  /\ pc = "done"
        /\ ValidRef(file)
        /\ Len(file.rows) = 2
        /\ NameOf(file, 1) = HGlucose /\ MinOf(file, 1) = TText
        /\ NameOf(file, 2) = HGlucoseLower
        /\ MinOf(file, 2) = T70Comma /\ MaxOf(file, 2) = T99Comma
        /\ feature = HGlucoseUpper
        /\ DOMAIN ref_map = {<<"g","l","u","c","o","s","e">>}
        /\ screen.band # <<>>
        /\ IsValue(screen.band[1], 70) /\ IsValue(screen.band[2], 99)

\* C10: a reference row with an unparseable minimum or maximum is still stored
\* under its normalised key, and the other rows are stored too; the band and
\* its legend entry are drawn if and only if the show-reference-band flag is
\* on, the normalised selected measurement name is a key of the map, and both
\* stored bounds are numeric.
C10_BandIffNumeric ==
    LET file == refFile[refPath]
        key  == lower(strip(feature))
    IN  /\ (RefsReturned /\ ValidRef(file)) =>
              \A i \in 1..Len(file.rows) : Normalised(NameOf(file, i)) \in DOMAIN ref_map
        /\ pc = "done" =>
              /\ (screen.band # <<>>) <=>
                    /\ show_ref_band
                    /\ key \in DOMAIN ref_map
                    /\ notna(ref_map[key][1])
                    /\ notna(ref_map[key][2])
              /\ screen.legend <=> (screen.band # <<>>)

\* The selected measurement's row has a numeric minimum and an unparseable
\* maximum: it is in the map, another row is too, and no band is drawn although
\* the flag is on.
C10_Witness ==
    LET key == lower(strip(feature))
    IN  /\ pc = "done"
        /\ show_ref_band
        /\ key \in DOMAIN ref_map
        /\ notna(ref_map[key][1])
        /\ ~notna(ref_map[key][2])
        /\ Cardinality(DOMAIN ref_map) = 2
        /\ screen.band = <<>>
        /\ ~screen.legend


-----------------------------------------------------------------------------
(* The dashboard over several runs *)

GoodCsv == TwoColumnCsv(<<<<Jan01, T90>>>>)

EditedCsv == TwoColumnCsv(<<<<Jan01, T110>>>>)

NoDateCsv == [GoodCsv EXCEPT !.headers = <<HDia, HGlucose>>]

NoNumericCsv == [TwoColumnCsv(<<<<Jan01, TText>>>>) EXCEPT !.headers = <<HData, HObs>>]

NoStampCsv == TwoColumnCsv(<<<<NotADate, T90>>>>)

MainCsvFiles == {GoodCsv, EditedCsv, NoDateCsv, NoNumericCsv, NoStampCsv}

GoodRef == RefOf(<<Exame, Minimo, Maximo>>, <<<<HGlucose, T70Comma, T99Comma>>>>)

MainRefFiles == {MissingRef, GoodRef}

Init ==
    /\ csvPath = "p1"
    /\ refPath = "r1"
    /\ csvFile \in [CsvPaths -> MainCsvFiles]
    /\ refFile \in [RefPaths -> MainRefFiles]
    /\ pc = "load_data"
    /\ FreshStart

Next ==
    \/ LoadData
    \/ LoadRefs
    \/ Detect
    \/ \E dr \in DateRanges(df), w \in {0, 1}, s \in BOOLEAN : Controls(HGlucose, dr, w, s)
    \/ ControlsFail
    \/ Filter
    \/ Rolling
    \/ Render
    \/ \E p \in CsvPaths, q \in RefPaths : Rerun(p, q)
    \/ \E f \in MainCsvFiles : EditCsv(f)
    \/ \E f \in MainRefFiles : EditRef(f)

Spec == Init /\ [][Next]_vars


DataLoaded == pc \notin {"load_data", "stopped"}

SomeMeasurement ==
    \E k \in 1..Len(df.cols) :
        /\ df.cols[k] # date_col
        /\ ~Contains(df.cols[k], <<" ","-"," ","R","e","f">>)
        /\ ~Contains(df.cols[k], <<"(","R","e","f">>)
        /\ \E i \in 1..Len(df.rows) : notna(CellValue(i, k))

OnlyTheError == screen = [BlankScreen EXCEPT !.error = TRUE]

\* C8: the chart and the value table are rendered only if load_data succeeded
\* and a candidate measurement was found; when the timestamp column is missing,
\* or no numeric candidate column exists, the error is reported and the run
\* halts before the controls, the chart and the table.
C8_NoPartialDashboard ==
    /\ (screen.chart \/ screen.table) =>
          /\ dataCache[csvPath].cached
          /\ df = dataCache[csvPath].value.df
          /\ date_col \in Range(df.cols)
          /\ SomeMeasurement
          /\ candidates # <<>>
          /\ ~screen.error
    /\ (pc # "load_data" /\ parses.data[csvPath] = 1 /\ ~dataCache[csvPath].cached
          /\ LabelledColumns(csvFile[csvPath].headers) = {}) =>
          /\ pc = "stopped"
          /\ OnlyTheError
    /\ (pc \notin {"load_data", "load_refs", "detect"} /\ df # BlankDf /\ ~SomeMeasurement) =>
          /\ pc = "stopped"
          /\ OnlyTheError

\* A second run, on another path, found a timestamp column but no numeric
\* column, and stopped with the error alone on the page.
C8_Witness ==
    /\ pc = "stopped"
    /\ runs = 2
    /\ date_col = HData
    /\ df # BlankDf
    /\ candidates = <<>>
    /\ OnlyTheError

\* The file has no timestamp column and the run stopped with the error alone.
C8_WitnessNoDate ==
    /\ pc = "stopped"
    /\ csvFile[csvPath] = NoDateCsv
    /\ df = BlankDf
    /\ OnlyTheError

====
